---------------------------- MODULE Spec2Model ----------------------------
(***************************************************************************)
(* A model of lib/html.js, the HTML renderer of commonmark.js.             *)
(*                                                                         *)
(* A JavaScript string is a sequence of one-character strings, so that the *)
(* regular expressions, the escaping and the tag stripping of the renderer *)
(* are computed character by character as the code computes them.          *)
(***************************************************************************)
EXTENDS Integers, Sequences, FiniteSets, TLC

(***************************************************************************)
(* Bounds of the model.                                                    *)
(***************************************************************************)
\* The walker yields at most MaxNodes nodes in one render call.
MaxNodes == 4

(***************************************************************************)
(* String literals of the source.                                          *)
(***************************************************************************)
NL == <<"\n">>
sJavascript == <<"j", "a", "v", "a", "s", "c", "r", "i", "p", "t", ":">>
sVbscript == <<"v", "b", "s", "c", "r", "i", "p", "t", ":">>
sFile == <<"f", "i", "l", "e", ":">>
sData == <<"d", "a", "t", "a", ":">>
sDataImage == <<"d", "a", "t", "a", ":", "i", "m", "a", "g", "e", "/">>
sPng == <<"p", "n", "g">>
sGif == <<"g", "i", "f">>
sJpeg == <<"j", "p", "e", "g">>
sWebp == <<"w", "e", "b", "p">>
sRawOmitted == <<"<", "!", "-", "-", " ", "r", "a", "w", " ", "H", "T", "M", "L", " ", "o", "m", "i", "t", "t", "e", "d", " ", "-", "-", ">">>
sImgSrcEmpty == <<"<", "i", "m", "g", " ", "s", "r", "c", "=", "\"", "\"", " ", "a", "l", "t", "=", "\"">>
sImgSrc == <<"<", "i", "m", "g", " ", "s", "r", "c", "=", "\"">>
sAlt == <<"\"", " ", "a", "l", "t", "=", "\"">>
sTitleMid == <<"\"", " ", "t", "i", "t", "l", "e", "=", "\"">>
sImgClose == <<"\"", " ", "/", ">">>
sAmp == <<"&", "a", "m", "p", ";">>
sLt == <<"&", "l", "t", ";">>
sGt == <<"&", "g", "t", ";">>
sQuot == <<"&", "q", "u", "o", "t", ";">>
sDataSourcepos == <<"d", "a", "t", "a", "-", "s", "o", "u", "r", "c", "e", "p", "o", "s">>
sHref == <<"h", "r", "e", "f">>
sTitle == <<"t", "i", "t", "l", "e">>
sClass == <<"c", "l", "a", "s", "s">>
sStart == <<"s", "t", "a", "r", "t">>
sLanguage == <<"l", "a", "n", "g", "u", "a", "g", "e", "-">>
sBr == <<"b", "r">>
sEm == <<"e", "m">>
sSlashEm == <<"/", "e", "m">>
sStrong == <<"s", "t", "r", "o", "n", "g">>
sSlashStrong == <<"/", "s", "t", "r", "o", "n", "g">>
sA == <<"a">>
sSlashA == <<"/", "a">>
sCode == <<"c", "o", "d", "e">>
sSlashCode == <<"/", "c", "o", "d", "e">>
sPre == <<"p", "r", "e">>
sSlashPre == <<"/", "p", "r", "e">>
sP == <<"p">>
sSlashP == <<"/", "p">>
sBlockquote == <<"b", "l", "o", "c", "k", "q", "u", "o", "t", "e">>
sSlashBlockquote == <<"/", "b", "l", "o", "c", "k", "q", "u", "o", "t", "e">>
sLi == <<"l", "i">>
sSlashLi == <<"/", "l", "i">>
sUl == <<"u", "l">>
sOl == <<"o", "l">>
sHr == <<"h", "r">>
sH == <<"h">>
sSlash == <<"/">>

(***************************************************************************)
(* JavaScript values that are not strings.                                 *)
(***************************************************************************)
\* null and undefined where a string may stand (title, info, buffer, ...):
\* one-element sequences that no string of characters equals.
NullStr == <<"null">>
Undefined == <<"undefined">>
\* a value where a number may stand (listStart)
JsNull == [t |-> "null", v |-> 0]
JsUndefined == [t |-> "undefined", v |-> 0]
JsNum(n) == [t |-> "number", v |-> n]
\* node.sourcepos is absent
NoPos == <<>>

\* the truthiness of a string-valued field: null, undefined and "" are falsy
Truthy(s) == s # NullStr /\ s # Undefined /\ s # <<>>

(***************************************************************************)
(* String primitives of JavaScript.                                        *)
(***************************************************************************)
UpperLetters == <<"A", "B", "C", "D", "E", "F", "G", "H", "I", "J", "K", "L", "M",
                  "N", "O", "P", "Q", "R", "S", "T", "U", "V", "W", "X", "Y", "Z">>
LowerLetters == <<"a", "b", "c", "d", "e", "f", "g", "h", "i", "j", "k", "l", "m",
                  "n", "o", "p", "q", "r", "s", "t", "u", "v", "w", "x", "y", "z">>

\* the /i flag: a character compared without its case
ToLower(c) ==
    IF \E i \in 1..Len(UpperLetters) : UpperLetters[i] = c
    THEN LowerLetters[CHOOSE i \in 1..Len(UpperLetters) : UpperLetters[i] = c]
    ELSE c

\* the (lower-case) literal lit matches s at position i, ignoring case
MatchAtCI(s, i, lit) ==
    /\ i >= 1
    /\ i + Len(lit) - 1 <= Len(s)
    /\ \A k \in 1..Len(lit) : ToLower(s[i + k - 1]) = lit[k]

\* lit matches s somewhere, ignoring case
MatchAnywhereCI(s, lit) == \E i \in 1..Len(s) : MatchAtCI(s, i, lit)

\* String(n), n.toString() of a natural number
Digits == <<"0", "1", "2", "3", "4", "5", "6", "7", "8", "9">>
RECURSIVE NumToString(_)
NumToString(n) ==
    IF n < 10 THEN <<Digits[n + 1]>>
    ELSE NumToString(n \div 10) \o <<Digits[(n % 10) + 1]>>

\* s has sub as a substring
Contains(s, sub) ==
    \E i \in 1..(Len(s) - Len(sub) + 1) : SubSeq(s, i, i + Len(sub) - 1) = sub

(***************************************************************************)
(* lib/html.js: the regular expressions and the URL filter                 *)
(***************************************************************************)
\* s.replace(reHtmlTag, ''), reHtmlTag = /\<[^>]*\>/ without the g flag: the
\* leftmost "<" that a ">" follows, up to the first ">" after it, is removed.
reHtmlTagReplace(s) ==
    LET lts == {i \in 1..Len(s) : s[i] = "<" /\ \E j \in (i + 1)..Len(s) : s[j] = ">"}
    IN  IF lts = {} THEN s
        ELSE LET i == CHOOSE a \in lts : \A b \in lts : a <= b
                 j == CHOOSE a \in (i + 1)..Len(s) :
                         /\ s[a] = ">"
                         /\ \A b \in (i + 1)..Len(s) : s[b] = ">" => a <= b
             IN  SubSeq(s, 1, i - 1) \o SubSeq(s, j + 1, Len(s))

\* reUnsafeProtocol.test(url), /^javascript:|vbscript:|file:|data:/i: the ^
\* belongs to the first alternative only.
reUnsafeProtocol(url) ==
    \/ MatchAtCI(url, 1, sJavascript)
    \/ MatchAnywhereCI(url, sVbscript)
    \/ MatchAnywhereCI(url, sFile)
    \/ MatchAnywhereCI(url, sData)

\* reSafeDataProtocol.test(url), /^data:image\/(?:png|gif|jpeg|webp)/i
reSafeDataProtocol(url) ==
    /\ MatchAtCI(url, 1, sDataImage)
    /\ \E ext \in {sPng, sGif, sJpeg, sWebp} : MatchAtCI(url, Len(sDataImage) + 1, ext)

potentiallyUnsafe(url) == reUnsafeProtocol(url) /\ ~reSafeDataProtocol(url)

(***************************************************************************)
(* ./common: escapeXml, as this.escape(text, isAttribute)                  *)
(***************************************************************************)
escapeChar(c, isAttribute) ==
    IF c = "&" THEN sAmp
    ELSE IF c = "<" THEN sLt
    ELSE IF c = ">" THEN sGt
    ELSE IF c = "\"" /\ isAttribute THEN sQuot
    ELSE <<c>>

RECURSIVE escape(_, _)
escape(s, isAttribute) ==
    IF s = <<>> THEN <<>>
    ELSE escapeChar(Head(s), isAttribute) \o escape(Tail(s), isAttribute)

(***************************************************************************)
(* HtmlRenderer.prototype.tag                                              *)
(***************************************************************************)
\* attrs is a sequence of pairs <<name, value>>, or NoAttrs where the caller
\* passes none (or passes a node, which has no length).
NoAttrs == <<>>

RECURSIVE tagAttrs(_)
tagAttrs(attrs) ==
    IF attrs = <<>> THEN <<>>
    ELSE <<" ">> \o Head(attrs)[1] \o <<"=", "\"">> \o Head(attrs)[2] \o <<"\"">>
         \o tagAttrs(Tail(attrs))

tag(name, attrs, selfclosing) ==
    <<"<">> \o name \o tagAttrs(attrs)
    \o (IF selfclosing THEN <<" ", "/">> ELSE <<>>) \o <<">">>


(***************************************************************************)
(* The state of the program.                                               *)
(***************************************************************************)
VARIABLES
    options,      \* this.options: [safe, sourcepos, softbreak], set by the constructor
    status,       \* "idle", "running" (in render's loop), "returned", "thrown"
    buffer,       \* this.buffer
    lastOut,      \* this.lastOut
    disableTags,  \* this.disableTags
    entering,     \* this.entering
    node,         \* render's local node: the node of the last event
    open,         \* the walker: the containers entered and not yet left, innermost first
    nNodes,       \* the walker: the number of nodes entered so far
    vocab,        \* the tree: the nodes the tree under render is made of
    result,       \* the value render returned
    error,        \* the value render threw
    outs,         \* history: the arguments of the calls of out made by the last event
    crMarks,      \* history: the positions of the buffer that cr appended
    url,          \* the argument of a call of potentiallyUnsafe
    verdict,      \* what that call returned
    tagArgs,      \* the arguments of a call of tag: [name, attrs, selfclosing]
    tagResult     \* what that call returned

vars == <<options, status, buffer, lastOut, disableTags, entering, node, open,
          nNodes, vocab, result, error, outs, crMarks, url, verdict, tagArgs, tagResult>>

(***************************************************************************)
(* HtmlRenderer.prototype.out and cr.  A handler works on the renderer's   *)
(* fields, held in a record r while the handler runs.                      *)
(***************************************************************************)
out(r, s) ==
    [r EXCEPT !.buffer = IF r.disableTags > 0 THEN @ \o reHtmlTagReplace(s) ELSE @ \o s,
              !.lastOut = s,
              !.outs = Append(@, s)]

\* cr without the test of lastOut
crUnconditional(r) ==
    [r EXCEPT !.buffer = @ \o NL,
              !.lastOut = NL,
              !.crMarks = @ \cup {Len(r.buffer) + 1}]

cr(r) ==
    IF r.lastOut # NL
    THEN [r EXCEPT !.buffer = @ \o NL,
                   !.lastOut = NL,
                   !.crMarks = @ \cup {Len(r.buffer) + 1}]
    ELSE r

\* a TypeError thrown inside a handler
throwTypeError(r) == [r EXCEPT !.exc = "TypeError"]

(***************************************************************************)
(* The per-variant handlers.                                               *)
(***************************************************************************)
document(r) == r

\* text without the call of this.escape
textUnescaped(r, n) == out(r, n.literal)

text(r, n) == out(r, escape(n.literal, FALSE))

\* this.SOFTBREAK, set by the constructor
SOFTBREAK == NL

softbreak(r) == out(r, SOFTBREAK)

hardbreak(r) == cr(out(r, tag(sBr, NoAttrs, TRUE)))

\* emph with the opening tag on both events
emphAlwaysOpens(r) == out(r, tag(sEm, NoAttrs, FALSE))

emph(r) == out(r, tag(IF r.entering THEN sEm ELSE sSlashEm, NoAttrs, FALSE))

strong(r) == out(r, tag(IF r.entering THEN sStrong ELSE sSlashStrong, NoAttrs, FALSE))

\* html with the safe option ignored
htmlIgnoresSafe(r, n) == out(r, n.literal)

html(r, n) ==
    IF options.safe THEN out(r, sRawOmitted) ELSE out(r, n.literal)

\* link with the URL filter left out: the href is always added
linkUnfiltered(r, n, attrs) ==
    IF r.entering
    THEN LET a1 == Append(attrs, <<sHref, escape(n.destination, TRUE)>>)
             a2 == IF Truthy(n.title)
                   THEN Append(a1, <<sTitle, escape(n.title, TRUE)>>)
                   ELSE a1
         IN  out(r, tag(sA, a2, FALSE))
    ELSE out(r, tag(sSlashA, NoAttrs, FALSE))

link(r, n, attrs) ==
    IF r.entering
    THEN LET a1 == IF ~(options.safe /\ potentiallyUnsafe(n.destination))
                   THEN Append(attrs, <<sHref, escape(n.destination, TRUE)>>)
                   ELSE attrs
             a2 == IF Truthy(n.title)
                   THEN Append(a1, <<sTitle, escape(n.title, TRUE)>>)
                   ELSE a1
         IN  out(r, tag(sA, a2, FALSE))
    ELSE out(r, tag(sSlashA, NoAttrs, FALSE))

\* image with the increment moved inside the test of the outermost image
imageCountsOutermostOnly(r, n) ==
    IF r.entering
    THEN IF r.disableTags = 0
         THEN LET r1 == IF options.safe /\ potentiallyUnsafe(n.destination)
                        THEN out(r, sImgSrcEmpty)
                        ELSE out(r, sImgSrc \o escape(n.destination, TRUE) \o sAlt)
              IN  [r1 EXCEPT !.disableTags = @ + 1]
         ELSE r
    ELSE LET r1 == [r EXCEPT !.disableTags = @ - 1]
         IN  IF r1.disableTags = 0
             THEN LET r2 == IF Truthy(n.title)
                            THEN out(r1, sTitleMid \o escape(n.title, TRUE))
                            ELSE r1
                  IN  out(r2, sImgClose)
             ELSE r1

\* image with the test of the outermost image left out on enter
imageEmitsWhenNested(r, n) ==
    IF r.entering
    THEN LET r1 == IF options.safe /\ potentiallyUnsafe(n.destination)
                   THEN out(r, sImgSrcEmpty)
                   ELSE out(r, sImgSrc \o escape(n.destination, TRUE) \o sAlt)
         IN  [r1 EXCEPT !.disableTags = @ + 1]
    ELSE LET r1 == [r EXCEPT !.disableTags = @ - 1]
         IN  IF r1.disableTags = 0
             THEN LET r2 == IF Truthy(n.title)
                            THEN out(r1, sTitleMid \o escape(n.title, TRUE))
                            ELSE r1
                  IN  out(r2, sImgClose)
             ELSE r1

image(r, n) ==
    IF r.entering
    THEN LET r1 == IF r.disableTags = 0
                   THEN IF options.safe /\ potentiallyUnsafe(n.destination)
                        THEN out(r, sImgSrcEmpty)
                        ELSE out(r, sImgSrc \o escape(n.destination, TRUE) \o sAlt)
                   ELSE r
         IN  [r1 EXCEPT !.disableTags = @ + 1]
    ELSE LET r1 == [r EXCEPT !.disableTags = @ - 1]
         IN  IF r1.disableTags = 0
             THEN LET r2 == IF Truthy(n.title)
                            THEN out(r1, sTitleMid \o escape(n.title, TRUE))
                            ELSE r1
                  IN  out(r2, sImgClose)
             ELSE r1

code(r, n) ==
    out(r, tag(sCode, NoAttrs, FALSE) \o escape(n.literal, FALSE)
           \o tag(sSlashCode, NoAttrs, FALSE))

\* info.split(/\s+/)[0]: the characters before the first white space
WhiteSpace == {" ", "\t", "\n"}
RECURSIVE firstWord(_)
firstWord(s) ==
    IF s = <<>> \/ Head(s) \in WhiteSpace THEN <<>>
    ELSE <<Head(s)>> \o firstWord(Tail(s))

codeblock(r, n, attrs) ==
    LET hasWords == Truthy(n.info)
        a1 == IF hasWords /\ Len(firstWord(n.info)) > 0
              THEN Append(attrs, <<sClass, sLanguage \o escape(firstWord(n.info), TRUE)>>)
              ELSE attrs
        r1 == cr(r)
        r2 == out(r1, tag(sPre, NoAttrs, FALSE) \o tag(sCode, a1, FALSE))
        r3 == out(r2, escape(n.literal, FALSE))
        r4 == out(r3, tag(sSlashCode, NoAttrs, FALSE) \o tag(sSlashPre, NoAttrs, FALSE))
    IN  cr(r4)

\* a node that is null (the parent of the root, the grandparent of its children)
NullNode == [type |-> "null"]

\* parent is node.parent, grandparent is node.parent.parent when parent is a node
paragraph(r, parent, grandparent, attrs) ==
    IF parent = NullNode THEN throwTypeError(r)
    ELSE IF grandparent # NullNode /\ grandparent.type = "List" /\ grandparent.listTight
    THEN r
    ELSE IF r.entering
    THEN out(cr(r), tag(sP, attrs, FALSE))
    ELSE cr(out(r, tag(sSlashP, NoAttrs, FALSE)))

\* blockquote and item are declared function(attrs) and called with (node, attrs):
\* their attrs is the node, which has no length, so tag adds no attribute.
blockquote(r) ==
    IF r.entering
    THEN cr(out(cr(r), tag(sBlockquote, NoAttrs, FALSE)))
    ELSE cr(out(cr(r), tag(sSlashBlockquote, NoAttrs, FALSE)))

item(r) ==
    IF r.entering
    THEN out(r, tag(sLi, NoAttrs, FALSE))
    ELSE cr(out(r, tag(sSlashLi, NoAttrs, FALSE)))

list(r, n, attrs) ==
    LET tagname == IF n.listType = "Bullet" THEN sUl ELSE sOl
        start == n.listStart
    IN  IF r.entering
        THEN IF start # JsNull /\ start # JsNum(1)
             THEN IF start = JsUndefined
                  THEN throwTypeError(r)
                  ELSE cr(out(cr(r), tag(tagname,
                                         Append(attrs, <<sStart, NumToString(start.v)>>),
                                         FALSE)))
             ELSE cr(out(cr(r), tag(tagname, attrs, FALSE)))
        ELSE cr(out(cr(r), tag(sSlash \o tagname, NoAttrs, FALSE)))

header(r, n, attrs) ==
    LET tagname == sH \o NumToString(n.level)
    IN  IF r.entering
        THEN out(cr(r), tag(tagname, attrs, FALSE))
        ELSE cr(out(r, tag(sSlash \o tagname, NoAttrs, FALSE)))

htmlblock(r, n) ==
    LET r1 == cr(r)
        r2 == IF options.safe THEN out(r1, sRawOmitted) ELSE out(r1, n.literal)
    IN  cr(r2)

horizontalrule(r, attrs) == cr(out(cr(r), tag(sHr, attrs, TRUE)))


(***************************************************************************)
(* HtmlRenderer.prototype.render: the attributes computed before dispatch  *)
(***************************************************************************)
\* String(pos[0][0]) + ':' + String(pos[0][1]) + '-' + String(pos[1][0]) + ':' + ...
sourceposValue(pos) ==
    NumToString(pos[1][1]) \o <<":">> \o NumToString(pos[1][2]) \o <<"-">>
    \o NumToString(pos[2][1]) \o <<":">> \o NumToString(pos[2][2])

renderAttrs(n) ==
    IF options.sourcepos /\ n.sourcepos # NoPos
    THEN <<<<sDataSourcepos, sourceposValue(n.sourcepos)>>>>
    ELSE <<>>

\* node.type.toLowerCase(), for the node types of the model
toLowerCase(type) ==
    CASE type = "Document" -> "document"
      [] type = "Text" -> "text"
      [] type = "Softbreak" -> "softbreak"
      [] type = "Hardbreak" -> "hardbreak"
      [] type = "Emph" -> "emph"
      [] type = "Strong" -> "strong"
      [] type = "Html" -> "html"
      [] type = "Link" -> "link"
      [] type = "Image" -> "image"
      [] type = "Code" -> "code"
      [] type = "CodeBlock" -> "codeblock"
      [] type = "Paragraph" -> "paragraph"
      [] type = "BlockQuote" -> "blockquote"
      [] type = "Item" -> "item"
      [] type = "List" -> "list"
      [] type = "Header" -> "header"
      [] type = "HtmlBlock" -> "htmlblock"
      [] type = "HorizontalRule" -> "horizontalrule"
      [] type = "Cr" -> "cr"
      [] type = "Tag" -> "tag"
      [] type = "Custom" -> "custom"

\* the per-variant handlers of the prototype
Handlers == {"document", "text", "softbreak", "hardbreak", "emph", "strong", "html",
             "link", "image", "code", "codeblock", "paragraph", "blockquote", "item",
             "list", "header", "htmlblock", "horizontalrule"}

\* the other functions of the prototype that this[method] finds
Helpers == {"render", "out", "cr", "tag"}

\* this[method] is truthy
hasMethod(method) == method \in Handlers \cup Helpers

(***************************************************************************)
(* The trees under render.  A tree is made of the nodes of one vocabulary; *)
(* the walker yields their events in document order, every container's     *)
(* enter event matched by its exit event.                                  *)
(***************************************************************************)
Node(type) ==
    [type |-> type, literal |-> NullStr, destination |-> NullStr, title |-> NullStr,
     info |-> NullStr, listType |-> "null", listStart |-> JsNull, listTight |-> FALSE,
     level |-> 0, sourcepos |-> NoPos]

TextNode(lit) == [Node("Text") EXCEPT !.literal = lit]
HtmlNode(lit) == [Node("Html") EXCEPT !.literal = lit]
HtmlBlockNode(lit) == [Node("HtmlBlock") EXCEPT !.literal = lit]
CodeNode(lit) == [Node("Code") EXCEPT !.literal = lit]
CodeBlockNode(info, lit) == [Node("CodeBlock") EXCEPT !.info = info, !.literal = lit]
LinkNode(dest, title) == [Node("Link") EXCEPT !.destination = dest, !.title = title]
ImageNode(dest, title) == [Node("Image") EXCEPT !.destination = dest, !.title = title]
ListNode(type, start, tight) ==
    [Node("List") EXCEPT !.listType = type, !.listStart = start, !.listTight = tight]
HeaderNode(level) == [Node("Header") EXCEPT !.level = level]
At(n, pos) == [n EXCEPT !.sourcepos = pos]


\* destinations, titles, literals and info strings of the nodes
uJavascript == <<"j", "a", "v", "a", "s", "c", "r", "i", "p", "t", ":", "x">>
uHttp == <<"h", "t", "t", "p", ":", "/", "/", "a", "?", "b", "&", "c">>
uQueryFile == <<"/", "a", "?", "f", "i", "l", "e", ":", "b">>
uDataPng == <<"d", "a", "t", "a", ":", "i", "m", "a", "g", "e", "/", "p", "n", "g", ";", "x">>
tQuote == <<"t", "\"", "<">>
lA == <<"a">>
lLt == <<"a", "<", "b">>
lTagB == <<"<", "b", ">", "x", "<", "/", "b", ">">>
lBlock == <<"<", "p", ">", "x", "<", "/", "p", ">">>
iJs == <<"j", "s", " ", "e", "x", "t", "r", "a">>
iLeading == <<" ", "j", "s">>
lCodeLine == <<"x", "&", "\n">>
pos1 == <<<<1, 1>>, <<2, 13>>>>
\* strings made of the characters escape rewrites
lSpecial == <<"\"", "&", "<", ">", "x">>
uSpecial == <<"u", "\"", "&", "<">>
iSpecial == <<"c", "\"", "<", " ", "x">>

\* Every vocabulary is small, so that trees of MaxNodes nodes over it can be
\* enumerated; together they cover every variant and every branch of a handler.
VImages ==
    {ImageNode(uJavascript, tQuote), ImageNode(uHttp, NullStr), TextNode(lA),
     Node("Custom")}
VLinks == {LinkNode(uJavascript, tQuote), LinkNode(uQueryFile, NullStr), TextNode(lLt)}
VRaw == {HtmlNode(lTagB), HtmlBlockNode(lBlock), ImageNode(uHttp, NullStr), TextNode(lA)}
VOtherTypes ==
    {Node("Custom"), Node("Cr"), Node("Tag"), ImageNode(uHttp, NullStr), TextNode(lA)}
VBreaks ==
    {Node("Hardbreak"), Node("Softbreak"), TextNode(<<>>), Node("HorizontalRule"),
     ImageNode(uDataPng, <<>>)}
VInline == {ImageNode(uHttp, tQuote), LinkNode(uHttp, tQuote), Node("Emph"), CodeNode(lLt)}
VEmphasis == {Node("Emph"), Node("Strong"), TextNode(lA)}
VTightList == {ListNode("Ordered", JsNum(5), TRUE), Node("Item"), Node("Paragraph"), TextNode(lA)}
VLooseList == {ListNode("Bullet", JsNull, FALSE), Node("Item"), Node("Paragraph"), TextNode(lA)}
VListStarts ==
    {ListNode("Ordered", JsNum(1), FALSE), ListNode("Ordered", JsNull, TRUE),
     ListNode("Bullet", JsNum(5), FALSE)}
VListStartsMore ==
    {ListNode("Ordered", JsUndefined, FALSE), ListNode("Ordered", JsNum(12), TRUE),
     ListNode("Bullet", JsNull, TRUE)}
VBlocks == {Node("Document"), Node("Paragraph"), Node("BlockQuote"), TextNode(lA)}
VHeaders == {Node("Document"), HeaderNode(2), CodeBlockNode(iJs, lCodeLine), TextNode(lLt)}
VCodeBlocks ==
    {Node("Document"), CodeBlockNode(NullStr, lCodeLine), CodeBlockNode(<<>>, lA),
     CodeBlockNode(iLeading, lA), CodeBlockNode(iJs, lLt)}
VEscapes ==
    {LinkNode(uSpecial, tQuote), ImageNode(uSpecial, tQuote), TextNode(lSpecial),
     CodeNode(lSpecial), CodeBlockNode(iSpecial, lSpecial)}
VNesting == {LinkNode(uHttp, tQuote), Node("Emph"), Node("BlockQuote")}
VPosBlocks == {At(Node("Paragraph"), pos1), At(Node("BlockQuote"), pos1), At(Node("Item"), pos1)}
VPosLists == {At(ListNode("Bullet", JsNull, FALSE), pos1), At(HeaderNode(1), pos1), Node("Paragraph")}
VPosEmphasis == {At(Node("Emph"), pos1), At(Node("Strong"), pos1), At(CodeNode(lA), pos1)}
VPosLinks ==
    {At(LinkNode(uHttp, NullStr), pos1), At(ImageNode(uHttp, NullStr), pos1),
     At(TextNode(lA), pos1)}
VPosLeaves ==
    {At(CodeBlockNode(iJs, lA), pos1), At(Node("HorizontalRule"), pos1),
     At(Node("Hardbreak"), pos1), At(HtmlBlockNode(lBlock), pos1),
     At(Node("Document"), pos1)}

\* the vocabularies whose rendering depends on options.safe
SafeVocabularies == {VImages, VLinks, VRaw}
PlainVocabularies ==
    {VOtherTypes, VBreaks, VInline, VEmphasis, VTightList, VLooseList, VListStarts,
     VListStartsMore, VBlocks, VHeaders, VCodeBlocks, VPosBlocks, VEscapes,
     VNesting}
PosVocabularies == {VPosBlocks, VPosLists, VPosEmphasis, VPosLinks, VPosLeaves}

\* the vocabularies a renderer constructed with options o is run on
VocabulariesFor(o) ==
    IF o.softbreak # Undefined THEN {VBreaks}
    ELSE IF o.sourcepos THEN (IF o.safe THEN {VPosLinks} ELSE PosVocabularies)
    ELSE IF o.safe THEN SafeVocabularies
    ELSE SafeVocabularies \cup PlainVocabularies

(***************************************************************************)
(* The state machine.                                                      *)
(***************************************************************************)
\* the options objects a renderer is constructed with: softbreak is left out
\* (undefined) or given as a string
oSoftbreak == <<"<", "b", "r", " ", "/", ">", "\n">>
Options ==
    [safe : BOOLEAN, sourcepos : BOOLEAN, softbreak : {Undefined}]
    \cup [safe : {FALSE}, sourcepos : {FALSE}, softbreak : {oSoftbreak}]

\* new HtmlRenderer(options): render has not run, its fields are undefined
Init ==
    /\ options \in Options
    /\ status = "idle"
    /\ buffer = Undefined
    /\ lastOut = Undefined
    /\ disableTags = Undefined
    /\ entering = Undefined
    /\ node = NullNode
    /\ open = <<>>
    /\ nNodes = 0
    /\ vocab = {}
    /\ result = Undefined
    /\ error = "none"
    /\ outs = <<>>
    /\ crMarks = {}
    /\ url = Undefined
    /\ verdict = Undefined
    /\ tagArgs = Undefined
    /\ tagResult = Undefined

\* render without the reset of disableTags at line 30
RenderKeepsDisableTags ==
    /\ status \in {"idle", "returned", "thrown"}
    /\ status' = "running"
    /\ buffer' = <<>>
    /\ lastOut' = NL
    /\ disableTags' = (IF status = "idle" THEN 0 ELSE disableTags)
    /\ entering' = FALSE
    /\ node' = NullNode
    /\ open' = <<>>
    /\ nNodes' = 0
    /\ vocab' \in VocabulariesFor(options)
    /\ result' = Undefined
    /\ error' = "none"
    /\ outs' = <<>>
    /\ crMarks' = {}
    /\ UNCHANGED <<options, url, verdict, tagArgs, tagResult>>

\* render(block), up to its loop
Render ==
    /\ status \in {"idle", "returned", "thrown"}
    /\ status' = "running"
    /\ buffer' = <<>>
    /\ lastOut' = NL
    /\ disableTags' = 0
    /\ entering' = FALSE
    /\ node' = NullNode
    /\ open' = <<>>
    /\ nNodes' = 0
    /\ vocab' \in VocabulariesFor(options)
    /\ result' = Undefined
    /\ error' = "none"
    /\ outs' = <<>>
    /\ crMarks' = {}
    /\ UNCHANGED <<options, url, verdict, tagArgs, tagResult>>

\* the renderer's fields as a handler finds them at an event
Cur(ent) ==
    [buffer |-> buffer, lastOut |-> lastOut, disableTags |-> disableTags,
     entering |-> ent, outs |-> <<>>, crMarks |-> crMarks, exc |-> "none"]

\* the renderer's fields as the handler of an event on node n left them
Commit(r, n) ==
    /\ buffer' = r.buffer
    /\ lastOut' = r.lastOut
    /\ disableTags' = r.disableTags
    /\ entering' = r.entering
    /\ outs' = r.outs
    /\ crMarks' = r.crMarks
    /\ node' = n
    /\ status' = IF r.exc = "none" THEN "running" ELSE "thrown"
    /\ error' = r.exc
    /\ UNCHANGED <<options, vocab, result, url, verdict, tagArgs, tagResult>>

\* walker.next() can yield the enter event of one more node: the root first,
\* then nodes inside the open containers
CanEnter ==
    /\ status = "running"
    /\ nNodes < MaxNodes
    /\ (nNodes = 0 \/ open # <<>>)

\* node.parent and node.parent.parent of a node about to be entered
ParentOf(stack) == IF stack = <<>> THEN NullNode ELSE Head(stack)
GrandparentOf(stack) == IF Len(stack) < 2 THEN NullNode ELSE stack[2]

\* the one event of a leaf node n, handled with result r
Leaf(n, r) ==
    /\ CanEnter
    /\ Commit(r, n)
    /\ nNodes' = nNodes + 1
    /\ open' = open

\* the enter event of a container node n
Enter(n, r) ==
    /\ CanEnter
    /\ Commit(r, n)
    /\ nNodes' = nNodes + 1
    /\ open' = <<n>> \o open

\* the exit event of the innermost open container
Exit(r) ==
    /\ status = "running"
    /\ open # <<>>
    /\ Commit(r, Head(open))
    /\ nNodes' = nNodes
    /\ open' = Tail(open)

Top(type) == status = "running" /\ open # <<>> /\ Head(open).type = type

Document ==
    \/ \E n \in vocab : n.type = "Document" /\ Enter(n, document(Cur(TRUE)))
    \/ Top("Document") /\ Exit(document(Cur(FALSE)))

Text == \E n \in vocab : n.type = "Text" /\ Leaf(n, text(Cur(TRUE), n))

Softbreak == \E n \in vocab : n.type = "Softbreak" /\ Leaf(n, softbreak(Cur(TRUE)))

Hardbreak == \E n \in vocab : n.type = "Hardbreak" /\ Leaf(n, hardbreak(Cur(TRUE)))

Emph ==
    \/ \E n \in vocab : n.type = "Emph" /\ Enter(n, emph(Cur(TRUE)))
    \/ Top("Emph") /\ Exit(emph(Cur(FALSE)))

Strong ==
    \/ \E n \in vocab : n.type = "Strong" /\ Enter(n, strong(Cur(TRUE)))
    \/ Top("Strong") /\ Exit(strong(Cur(FALSE)))

Html == \E n \in vocab : n.type = "Html" /\ Leaf(n, html(Cur(TRUE), n))

Link ==
    \/ \E n \in vocab : n.type = "Link" /\ Enter(n, link(Cur(TRUE), n, renderAttrs(n)))
    \/ Top("Link") /\ Exit(link(Cur(FALSE), Head(open), renderAttrs(Head(open))))

Image ==
    \/ \E n \in vocab : n.type = "Image" /\ Enter(n, image(Cur(TRUE), n))
    \/ Top("Image") /\ Exit(image(Cur(FALSE), Head(open)))

Code == \E n \in vocab : n.type = "Code" /\ Leaf(n, code(Cur(TRUE), n))

CodeBlock ==
    \E n \in vocab : n.type = "CodeBlock" /\ Leaf(n, codeblock(Cur(TRUE), n, renderAttrs(n)))

Paragraph ==
    \/ \E n \in vocab :
          /\ n.type = "Paragraph"
          /\ Enter(n, paragraph(Cur(TRUE), ParentOf(open), GrandparentOf(open),
                                renderAttrs(n)))
    \/ /\ Top("Paragraph")
       /\ Exit(paragraph(Cur(FALSE), ParentOf(Tail(open)), GrandparentOf(Tail(open)),
                         renderAttrs(Head(open))))

BlockQuote ==
    \/ \E n \in vocab : n.type = "BlockQuote" /\ Enter(n, blockquote(Cur(TRUE)))
    \/ Top("BlockQuote") /\ Exit(blockquote(Cur(FALSE)))

Item ==
    \/ \E n \in vocab : n.type = "Item" /\ Enter(n, item(Cur(TRUE)))
    \/ Top("Item") /\ Exit(item(Cur(FALSE)))

List ==
    \/ \E n \in vocab : n.type = "List" /\ Enter(n, list(Cur(TRUE), n, renderAttrs(n)))
    \/ Top("List") /\ Exit(list(Cur(FALSE), Head(open), renderAttrs(Head(open))))

Header ==
    \/ \E n \in vocab : n.type = "Header" /\ Enter(n, header(Cur(TRUE), n, renderAttrs(n)))
    \/ Top("Header") /\ Exit(header(Cur(FALSE), Head(open), renderAttrs(Head(open))))

HtmlBlock == \E n \in vocab : n.type = "HtmlBlock" /\ Leaf(n, htmlblock(Cur(TRUE), n))

HorizontalRule ==
    \E n \in vocab :
        n.type = "HorizontalRule" /\ Leaf(n, horizontalrule(Cur(TRUE), renderAttrs(n)))

\* this[method] is a function of the prototype that is no handler: it is called
\* with (node, attrs).  cr takes no argument; tag only returns a string.
helperCall(r, method) == IF method = "cr" THEN cr(r) ELSE r

HelperType ==
    \E n \in vocab :
        /\ toLowerCase(n.type) \in {"cr", "tag"}
        /\ hasMethod(toLowerCase(n.type))
        /\ Leaf(n, helperCall(Cur(TRUE), toLowerCase(n.type)))

\* this[method] is undefined: throw "Unknown node type " + node.type
UnknownType ==
    \E n \in vocab :
        /\ ~hasMethod(toLowerCase(n.type))
        /\ CanEnter
        /\ status' = "thrown"
        /\ error' = "Unknown node type " \o n.type
        /\ entering' = TRUE
        /\ node' = n
        /\ nNodes' = nNodes + 1
        /\ outs' = <<>>
        /\ UNCHANGED <<options, buffer, lastOut, disableTags, open, vocab, result,
                       crMarks, url, verdict, tagArgs, tagResult>>

\* walker.next() returns null after the exit event of the root (or the one
\* event of a root that is a leaf): return this.buffer
Return ==
    /\ status = "running"
    /\ nNodes > 0
    /\ open = <<>>
    /\ status' = "returned"
    /\ result' = buffer
    /\ UNCHANGED <<options, buffer, lastOut, disableTags, entering, node, open, nNodes,
                   vocab, error, outs, crMarks, url, verdict, tagArgs, tagResult>>

Next ==
    \/ Render
    \/ Document \/ Text \/ Softbreak \/ Hardbreak \/ Emph \/ Strong \/ Html
    \/ Link \/ Image \/ Code \/ CodeBlock \/ Paragraph \/ BlockQuote \/ Item
    \/ List \/ Header \/ HtmlBlock \/ HorizontalRule
    \/ HelperType \/ UnknownType
    \/ Return

Spec == Init /\ [][Next]_vars


(***************************************************************************)
(* potentiallyUnsafe on its own: the destinations a tree may carry.        *)
(***************************************************************************)
UrlPrefixes == {<<>>, <<"x">>, <<"/", "a", "?">>}
UrlSchemes ==
    {sJavascript, <<"J", "a", "v", "a", "S", "c", "r", "i", "p", "t", ":">>,
     sVbscript, <<"V", "B", "S", "C", "R", "I", "P", "T", ":">>,
     sFile, sData, <<"D", "A", "T", "A", ":">>,
     <<"h", "t", "t", "p", ":">>, <<"j", "a", "v", "a", "s", "c", "r", "i", "p", "t">>, <<>>}
UrlRests ==
    {<<>>, <<"x">>, <<"i", "m", "a", "g", "e", "/">> \o sPng,
     <<"I", "M", "A", "G", "E", "/", "P", "N", "G", ";">>,
     <<"i", "m", "a", "g", "e", "/">> \o sGif, <<"i", "m", "a", "g", "e", "/">> \o sJpeg,
     <<"i", "m", "a", "g", "e", "/">> \o sWebp,
     <<"i", "m", "a", "g", "e", "/", "s", "v", "g">>,
     <<"t", "e", "x", "t", "/", "h", "t", "m", "l">>}
Urls == {p \o s \o r : p \in UrlPrefixes, s \in UrlSchemes, r \in UrlRests}

\* a call potentiallyUnsafe(u)
PotentiallyUnsafe ==
    /\ status = "idle"
    /\ \E u \in Urls :
          /\ url' = u
          /\ verdict' = potentiallyUnsafe(u)
    /\ UNCHANGED <<options, status, buffer, lastOut, disableTags, entering, node, open,
                   nNodes, vocab, result, error, outs, crMarks, tagArgs, tagResult>>

SpecUrl == Init /\ [][PotentiallyUnsafe]_vars

(***************************************************************************)
(* tag on its own: the names, attribute lists and flags it may be given.   *)
(***************************************************************************)
TagNames == {sP, sA, sBr, sCode, sSlashP, sSlashA, sSlashCode, sSlashEm}
aHref == <<sHref, <<"/", "u", "?", "a", "&", "b">> >>
aTitle == <<sTitle, <<"t", " ", "<", ">">> >>
aClass == <<sClass, <<>> >>
TagAttrLists ==
    {NoAttrs, <<aHref>>, <<aTitle>>, <<aClass>>, <<aHref, aTitle>>, <<aTitle, aHref>>,
     <<aHref, aTitle, aClass>>}

\* a call tag(name, attrs, selfclosing)
Tag ==
    /\ status = "idle"
    /\ \E name \in TagNames, attrs \in TagAttrLists, selfclosing \in BOOLEAN :
          /\ tagArgs' = [name |-> name, attrs |-> attrs, selfclosing |-> selfclosing]
          /\ tagResult' = tag(name, attrs, selfclosing)
    /\ UNCHANGED <<options, status, buffer, lastOut, disableTags, entering, node, open,
                   nNodes, vocab, result, error, outs, crMarks, url, verdict>>

SpecTag == Init /\ [][Tag]_vars

(***************************************************************************)
(* Notions the properties are stated with.                                 *)
(***************************************************************************)
StartsWith(s, pre) == Len(pre) <= Len(s) /\ SubSeq(s, 1, Len(pre)) = pre
EndsWith(s, suf) == Len(suf) <= Len(s) /\ SubSeq(s, Len(s) - Len(suf) + 1, Len(s)) = suf

\* the node types that have a handler of their own
HandledTypes ==
    {"Document", "Text", "Softbreak", "Hardbreak", "Emph", "Strong", "Html", "Link",
     "Image", "Code", "CodeBlock", "Paragraph", "BlockQuote", "Item", "List", "Header",
     "HtmlBlock", "HorizontalRule"}

\* this step is the handling of one traversal event (of node', entering')
EventStep == status = "running" /\ (nNodes' = nNodes + 1 \/ Len(open') < Len(open))

\* what a step appended to the buffer
Appended == SubSeq(buffer', Len(buffer) + 1, Len(buffer'))

\* an attribute name as tag writes it, with the opening quote of its value
AttrOpen(name) == <<" ">> \o name \o <<"=", "\"">>

\* the number of Image nodes among the open containers
OpenImages == Cardinality({i \in DOMAIN open : open[i].type = "Image"})

(***************************************************************************)
(* C1.  potentiallyUnsafe(u) is true if and only if u starts, ignoring     *)
(* case, with javascript:, vbscript:, file: or data: and does not start    *)
(* with data:image/ followed by png, gif, jpeg or webp; a scheme at a      *)
(* later position does not make u unsafe.                                  *)
(***************************************************************************)
StartsWithUnsafeScheme(u) ==
    \E scheme \in {sJavascript, sVbscript, sFile, sData} : MatchAtCI(u, 1, scheme)

StartsWithSafeData(u) ==
    \E ext \in {sPng, sGif, sJpeg, sWebp} : MatchAtCI(u, 1, sDataImage \o ext)

C1_UnsafeIffSchemePrefix ==
    url # Undefined =>
        (verdict <=> (StartsWithUnsafeScheme(url) /\ ~StartsWithSafeData(url)))

(***************************************************************************)
(* C2.  With safe enabled, a link whose destination is potentially unsafe  *)
(* is opened with no href and an outermost image with such a destination   *)
(* with an empty src, and the chunk the event emits does not hold the      *)
(* destination; otherwise the link is opened with an href and the          *)
(* outermost image with a src that carry the (escaped) destination.        *)
(***************************************************************************)
C2_SafeFiltersDestinations ==
    (node.type \in {"Link", "Image"} /\ entering = TRUE) =>
        LET filtered == options.safe /\ potentiallyUnsafe(node.destination)
            dest == escape(node.destination, TRUE)
            titleFree == ~Truthy(node.title) \/ ~Contains(escape(node.title, TRUE), dest)
        IN  /\ node.type = "Link" =>
                /\ Len(outs) = 1
                /\ StartsWith(outs[1], <<"<", "a">>)
                /\ filtered => /\ ~Contains(outs[1], AttrOpen(sHref))
                               /\ titleFree => ~Contains(outs[1], dest)
                /\ ~filtered => Contains(outs[1], AttrOpen(sHref) \o dest \o <<"\"">>)
            /\ (node.type = "Image" /\ disableTags = 1) =>
                /\ Len(outs) = 1
                /\ filtered => outs[1] = sImgSrcEmpty
                /\ ~filtered => StartsWith(outs[1], sImgSrc \o dest \o <<"\"">>)

C2_Witness ==
    /\ options.safe
    /\ node.type = "Link"
    /\ entering = TRUE
    /\ potentiallyUnsafe(node.destination)
    /\ Truthy(node.title)
    /\ Len(outs) = 1
    /\ EndsWith(buffer, outs[1])

(***************************************************************************)
(* C3.  As claimed: with safe enabled every Html or HtmlBlock event        *)
(* appends the comment placeholder to the buffer and not the literal, and  *)
(* with safe disabled it appends the literal verbatim.                     *)
(***************************************************************************)
RawEvent == EventStep /\ node'.type \in {"Html", "HtmlBlock"}

C3_RawAppendsPlaceholder ==
    [][RawEvent =>
          IF options.safe
          THEN Contains(Appended, sRawOmitted) /\ ~Contains(Appended, node'.literal)
          ELSE Contains(Appended, node'.literal)]_vars

(***************************************************************************)
(* C3, amended.  With safe enabled every Html or HtmlBlock event passes    *)
(* the comment placeholder, and never the literal, to out, and what the    *)
(* event appends does not hold the literal; with safe disabled it passes   *)
(* the literal verbatim.  The chunk passed to out is appended whole while  *)
(* the suppression counter is 0.                                           *)
(***************************************************************************)
C3_RawPassesPlaceholder ==
    [][RawEvent =>
          /\ outs' = <<IF options.safe THEN sRawOmitted ELSE node'.literal>>
          /\ options.safe => ~Contains(Appended, node'.literal)
          /\ disableTags = 0 => Contains(Appended, outs'[1])]_vars

C3_Witness ==
    /\ options.safe
    /\ node.type \in {"Html", "HtmlBlock"}
    /\ disableTags > 0
    /\ outs = <<sRawOmitted>>
    /\ ~Contains(buffer, sRawOmitted)

(***************************************************************************)
(* C4.  An event whose node type is none of the 18 handled variants makes  *)
(* render throw the error that carries the type name, with no renderer     *)
(* method invoked, no later event processed and nothing returned.          *)
(***************************************************************************)
C4_UnhandledTypeThrows ==
    (node # NullNode /\ node.type \notin HandledTypes) =>
        /\ status = "thrown"
        /\ error = "Unknown node type " \o node.type
        /\ result = Undefined

(***************************************************************************)
(* C5.  With balanced image events disableTags is never negative, equals   *)
(* the number of images entered and not yet left (so that an image-exit    *)
(* restores the value before the matching image-enter), and is 0 when      *)
(* render returns.                                                         *)
(***************************************************************************)
C5_DisableTagsBalanced ==
    status # "idle" =>
        /\ disableTags >= 0
        /\ disableTags = OpenImages
        /\ status = "returned" => disableTags = 0

C5_Witness ==
    /\ status = "running"
    /\ node.type = "Image"
    /\ entering = FALSE
    /\ disableTags = 1

(***************************************************************************)
(* C6.  Only the outermost image emits markup: an image-enter at           *)
(* suppression depth 0 appends one <img src=... alt=" opener, the matching *)
(* exit appends one " /> closer (after the title, if any), and the enter   *)
(* and exit events of an image inside an image append nothing.             *)
(***************************************************************************)
ImageEvent == EventStep /\ node'.type = "Image"

C6_OnlyOutermostImageEmits ==
    [][ImageEvent =>
          IF entering'
          THEN IF disableTags = 0
               THEN /\ StartsWith(Appended, sImgSrc)
                    /\ EndsWith(Appended, sAlt)
                    /\ Len(outs') = 1
               ELSE buffer' = buffer /\ outs' = <<>>
          ELSE IF disableTags' = 0
               THEN /\ EndsWith(Appended, sImgClose)
                    /\ ~Contains(Appended, sImgSrc)
                    /\ Appended = IF Truthy(node'.title)
                                  THEN sTitleMid \o escape(node'.title, TRUE) \o sImgClose
                                  ELSE sImgClose
               ELSE buffer' = buffer /\ outs' = <<>>]_vars

C6_Witness ==
    /\ status = "running"
    /\ node.type = "Image"
    /\ entering = FALSE
    /\ disableTags = 1
    /\ outs = <<>>
    /\ StartsWith(buffer, sImgSrc)
    /\ ~Contains(Tail(buffer), sImgSrc)
    /\ ~Contains(buffer, sImgClose)

(***************************************************************************)
(* C7.  The forced line breaks are normalized: no two adjacent characters  *)
(* of the buffer were both appended by cr, and cr does not append the      *)
(* first character of the output.                                          *)
(***************************************************************************)
C7_NoAdjacentForcedBreaks ==
    /\ \A i \in crMarks : (i + 1) \notin crMarks
    /\ 1 \notin crMarks

(***************************************************************************)
(* C8.  On list-enter the opening tag carries a start attribute if and     *)
(* only if the list is ordered and listStart is a number other than 1.     *)
(***************************************************************************)
C8_StartIffOrderedNotOne ==
    (node.type = "List" /\ entering = TRUE) =>
        /\ Len(outs) = 1
        /\ Contains(outs[1], AttrOpen(sStart))
             <=> (/\ node.listType = "Ordered"
                  /\ node.listStart.t = "number"
                  /\ node.listStart.v # 1)

(***************************************************************************)
(* C9.  The unknown-variant error is the only failure of render: an event  *)
(* of a handled variant never makes render throw.                          *)
(***************************************************************************)
C9_HandledTypesNeverThrow ==
    (status = "thrown") => node.type \notin HandledTypes

(***************************************************************************)
(* C10.  With sourcepos enabled, the opening tag emitted for a node that   *)
(* carries a source range has the data-sourcepos attribute built from it.  *)
(***************************************************************************)
OpensTag ==
    {"Paragraph", "Header", "List", "Link", "CodeBlock", "HorizontalRule",
     "BlockQuote", "Item", "Emph", "Strong", "Code", "Image"}

C10_SourceposOnEveryOpeningTag ==
    (/\ options.sourcepos
     /\ node # NullNode
     /\ node.type \in OpensTag
     /\ node.sourcepos # NoPos
     /\ entering = TRUE
     /\ outs # <<>>) =>
        \E i \in DOMAIN outs :
            Contains(outs[i], AttrOpen(sDataSourcepos) \o sourceposValue(node.sourcepos)
                              \o <<"\"">>)

(***************************************************************************)
(* C11.  The softbreak option overrides the string of a soft line break:   *)
(* a softbreak event passes options.softbreak to out when the renderer was *)
(* constructed with it, and a newline when it was not; outside an image    *)
(* that string is what the buffer ends with.                               *)
(***************************************************************************)
ConfiguredSoftbreak == IF options.softbreak # Undefined THEN options.softbreak ELSE NL

C11_SoftbreakOptionOverrides ==
    (status \in {"running", "returned"} /\ node.type = "Softbreak") =>
        /\ outs = <<ConfiguredSoftbreak>>
        /\ disableTags = 0 => EndsWith(buffer, ConfiguredSoftbreak)

(***************************************************************************)
(* C12.  Every call of render starts from the same renderer state: the     *)
(* buffer is empty, lastOut is a newline, disableTags is 0 and entering is *)
(* false, whatever the previous render left behind, an abort inside an     *)
(* image included; the events of the new render start from nothing else.   *)
(***************************************************************************)
RenderStep == status # "running" /\ status' = "running"

C12_RenderStartsFresh ==
    [][RenderStep =>
          /\ buffer' = <<>>
          /\ lastOut' = NL
          /\ disableTags' = 0
          /\ entering' = FALSE
          /\ open' = <<>> /\ nNodes' = 0
          /\ error' = "none" /\ result' = Undefined]_vars

\* a render aborted on an unknown type inside an image, with text already in
\* the buffer, and render can be called again
C12_Witness ==
    /\ status = "thrown"
    /\ disableTags > 0
    /\ buffer # <<>>
    /\ lastOut # NL
    /\ ENABLED Render

(***************************************************************************)
(* C13.  A paragraph whose grandparent is a tight list appends nothing and *)
(* leaves lastOut as it was on its enter and on its exit event, while a    *)
(* text child still appends its escaped literal; a paragraph anywhere else *)
(* appends its opening tag on enter and </p> on exit.                      *)
(***************************************************************************)
ParagraphEvent == EventStep /\ node'.type = "Paragraph"

\* node.parent.parent of the paragraph of a paragraph event: on enter the
\* paragraph is not yet among the open containers, on exit it is the innermost
ParagraphGrandparent ==
    LET k == IF entering' THEN 2 ELSE 3
    IN  IF Len(open) >= k THEN open[k] ELSE NullNode

InTightList(gp) == gp.type = "List" /\ gp.listTight

TextInTightParagraph ==
    /\ EventStep
    /\ node'.type = "Text"
    /\ Len(open) >= 3
    /\ open[1].type = "Paragraph"
    /\ InTightList(open[3])

C13_TightParagraphIsSilent ==
    [][/\ ParagraphEvent =>
             IF InTightList(ParagraphGrandparent)
             THEN buffer' = buffer /\ lastOut' = lastOut
             ELSE IF entering'
                  THEN Contains(Appended, <<"<", "p">>) /\ EndsWith(Appended, <<">">>)
                  ELSE Contains(Appended, sSlashP \o <<">">>)
       /\ TextInTightParagraph => Appended = escape(node'.literal, FALSE)]_vars

(***************************************************************************)
(* C14.  Every string a node supplies outside raw HTML is passed to out    *)
(* escaped exactly once: the literal of a text, code or code-block node in *)
(* text mode, and a link's href, an image's src, their titles and the      *)
(* language word of a code block in attribute mode, between the quotes of  *)
(* their attribute; never the string itself, never its double escape.      *)
(***************************************************************************)
Quoted(name, value) == AttrOpen(name) \o value \o <<"\"">>

DestinationFiltered == options.safe /\ potentiallyUnsafe(node.destination)

C14_EscapedExactlyOnce ==
    (status \in {"running", "returned"} /\ node # NullNode /\ outs # <<>>) =>
        /\ node.type = "Text" =>
              /\ outs = <<escape(node.literal, FALSE)>>
              /\ EndsWith(buffer, escape(node.literal, FALSE))
        /\ node.type = "Code" =>
              /\ outs = << <<"<", "c", "o", "d", "e", ">">> \o escape(node.literal, FALSE)
                           \o <<"<", "/", "c", "o", "d", "e", ">">> >>
              /\ EndsWith(buffer, escape(node.literal, FALSE)
                                  \o <<"<", "/", "c", "o", "d", "e", ">">>)
        /\ node.type = "CodeBlock" =>
              /\ Len(outs) = 3
              /\ outs[2] = escape(node.literal, FALSE)
              /\ (Truthy(node.info) /\ firstWord(node.info) # <<>>) =>
                    Contains(outs[1],
                             Quoted(sClass, sLanguage \o escape(firstWord(node.info), TRUE)))
        /\ (node.type = "Link" /\ entering = TRUE) =>
              /\ ~DestinationFiltered =>
                    Contains(outs[1], Quoted(sHref, escape(node.destination, TRUE)))
              /\ Truthy(node.title) =>
                    Contains(outs[1], Quoted(sTitle, escape(node.title, TRUE)))
        /\ (node.type = "Image" /\ entering = TRUE /\ ~DestinationFiltered) =>
              outs = <<sImgSrc \o escape(node.destination, TRUE) \o sAlt>>
        /\ (node.type = "Image" /\ entering = FALSE /\ Truthy(node.title)) =>
              outs = <<sTitleMid \o escape(node.title, TRUE), sImgClose>>

\* a text node whose literal holds a quote, an ampersand and angle brackets
\* was rendered after a link with such a destination and title was entered
C14_Witness ==
    /\ status = "running"
    /\ node.type = "Text"
    /\ node.literal = lSpecial
    /\ escape(lSpecial, FALSE) # lSpecial
    /\ escape(lSpecial, FALSE) # escape(lSpecial, TRUE)
    /\ escape(escape(lSpecial, FALSE), FALSE) # escape(lSpecial, FALSE)
    /\ open # <<>>
    /\ Head(open).type = "Link"
    /\ Contains(buffer, Quoted(sHref, escape(uSpecial, TRUE))
                        \o Quoted(sTitle, escape(tQuote, TRUE)) \o <<">">>
                        \o escape(lSpecial, FALSE))

(***************************************************************************)
(* C15.  While disableTags is above 0, out removes every substring of a    *)
(* chunk that matches the tag pattern <...>, not only the first: an event  *)
(* between an outermost image-enter and its exit appends no tag.           *)
(***************************************************************************)
\* s has a substring matching /<[^>]*>/: a "<" with a ">" somewhere after it
HasTag(s) == \E i \in DOMAIN s : \E j \in DOMAIN s : i < j /\ s[i] = "<" /\ s[j] = ">"

InsideImageEvent == EventStep /\ disableTags > 0 /\ disableTags' > 0

C15_AllTagsStrippedInImage ==
    [][InsideImageEvent => ~HasTag(Appended)]_vars

(***************************************************************************)
(* C16.  After a call of out, lastOut is the text that call appended to    *)
(* the buffer: the stripped text while disableTags is above 0, not the     *)
(* argument of out.                                                        *)
(***************************************************************************)
\* an event whose handler called out once and whose calls of cr, if any,
\* appended nothing: what the step appended is what that call of out appended
SingleOutEvent ==
    /\ EventStep
    /\ Len(outs') = 1
    /\ crMarks' = crMarks

C16_LastOutIsAppendedText ==
    [][SingleOutEvent => lastOut' = Appended]_vars

(***************************************************************************)
(* C17.  cr appends exactly one newline and sets lastOut to a newline when *)
(* lastOut is not a newline, and otherwise changes neither the buffer nor  *)
(* lastOut; a second call right after it changes nothing, so two calls in  *)
(* a row append at most one newline.                                       *)
(***************************************************************************)
\* an event that is one call of cr and nothing else: render calls
\* this[method](node, attrs) with method = "cr" for a node of type "Cr"
CrEvent == EventStep /\ node'.type = "Cr"

C17_CrAppendsAtMostOneNewline ==
    [][/\ CrEvent =>
             /\ IF lastOut # NL
                THEN buffer' = buffer \o NL /\ lastOut' = NL
                ELSE buffer' = buffer /\ lastOut' = lastOut
             /\ node.type = "Cr" => buffer' = buffer /\ lastOut' = lastOut
       /\ status = "running" =>
             LET r1 == cr(Cur(TRUE))
                 r2 == cr(r1)
             IN  /\ r2.buffer = r1.buffer /\ r2.lastOut = r1.lastOut
                 /\ Len(r2.buffer) <= Len(buffer) + 1]_vars

\* cr was called at the end of an image's opening text and appended its
\* newline, and was the last event
C17_Witness ==
    /\ status = "running"
    /\ node.type = "Cr"
    /\ nNodes = 3
    /\ disableTags = 1
    /\ lastOut = NL
    /\ crMarks = {Len(buffer)}
    /\ EndsWith(buffer, sAlt \o NL)

(***************************************************************************)
(* C18.  tag(name, attrs, selfclosing) returns, for a name that does not   *)
(* begin with "/", "<" and the name, then " k="v"" for each pair of attrs  *)
(* in order with the value as given, then " /" when selfclosing, then ">"; *)
(* for a name that begins with "/" it returns "<name>" whatever attrs is.  *)
(***************************************************************************)
\* the attribute text of a list of pairs, built from its last pair backwards
RECURSIVE AttrText(_)
AttrText(attrs) ==
    IF attrs = <<>> THEN <<>>
    ELSE AttrText(SubSeq(attrs, 1, Len(attrs) - 1))
         \o Quoted(attrs[Len(attrs)][1], attrs[Len(attrs)][2])

C18_TagText ==
    tagResult # Undefined =>
        IF Head(tagArgs.name) = "/"
        THEN tagResult = <<"<">> \o tagArgs.name \o <<">">>
        ELSE tagResult = <<"<">> \o tagArgs.name \o AttrText(tagArgs.attrs)
                         \o (IF tagArgs.selfclosing THEN <<" ", "/">> ELSE <<>>)
                         \o <<">">>

(***************************************************************************)
(* C19.  In a render of a tree without image and raw HTML nodes the tags   *)
(* in the buffer are properly nested at every moment: read from the left,  *)
(* every closing tag closes the innermost tag still open, which has its    *)
(* name, and when render has returned no tag is left open.                 *)
(***************************************************************************)
\* the position of the first ">" of s after position i, Len(s) + 1 if none
RECURSIVE TagEnd(_, _)
TagEnd(s, i) ==
    IF i > Len(s) \/ s[i] = ">" THEN i ELSE TagEnd(s, i + 1)

\* the name of a tag with text body: the characters before the first blank
RECURSIVE TagName(_)
TagName(body) ==
    IF body = <<>> \/ Head(body) = " " THEN <<>>
    ELSE <<Head(body)>> \o TagName(Tail(body))

\* reads s from position i with the names of the open tags in stack,
\* innermost first: the tags still open at the end, and whether every closing
\* tag met the tag of its name on top
RECURSIVE OpenTags(_, _, _)
OpenTags(s, i, stack) ==
    IF i > Len(s) THEN [ok |-> TRUE, stack |-> stack]
    ELSE IF s[i] # "<" THEN OpenTags(s, i + 1, stack)
    ELSE LET j == TagEnd(s, i + 1)
             body == SubSeq(s, i + 1, j - 1)
         IN  IF j > Len(s) \/ body = <<>> THEN [ok |-> FALSE, stack |-> stack]
             ELSE IF Head(body) = "/"
             THEN IF stack # <<>> /\ Head(stack) = Tail(body)
                  THEN OpenTags(s, j + 1, Tail(stack))
                  ELSE [ok |-> FALSE, stack |-> stack]
             ELSE IF body[Len(body)] = "/" THEN OpenTags(s, j + 1, stack)
             ELSE OpenTags(s, j + 1, <<TagName(body)>> \o stack)

NoImageNoRawHtml ==
    \A n \in vocab : n.type \notin {"Image", "Html", "HtmlBlock"}

C19_TagsProperlyNested ==
    (status \in {"running", "returned", "thrown"} /\ NoImageNoRawHtml) =>
        LET t == OpenTags(buffer, 1, <<>>)
        IN  /\ t.ok
            /\ status = "returned" => t.stack = <<>>

\* render returned the text of a link inside an emphasis inside a block quote
C19_Witness ==
    /\ status = "returned"
    /\ NoImageNoRawHtml
    /\ Contains(result, <<"<", "b", "l", "o", "c", "k", "q", "u", "o", "t", "e", ">", "\n",
                          "<", "e", "m", ">", "<", "a", " ">>)
    /\ EndsWith(result, <<"<", "/", "a", ">", "<", "/", "e", "m", ">", "\n",
                          "<", "/", "b", "l", "o", "c", "k", "q", "u", "o", "t", "e", ">", "\n">>)
    /\ OpenTags(SubSeq(result, 1, Len(result) - 24), 1, <<>>).stack
           = << <<"a">>, <<"e", "m">>, <<"b", "l", "o", "c", "k", "q", "u", "o", "t", "e">> >>

=============================================================================
